---- MODULE Spec2Model ----
(***************************************************************************)
(* The workout-flow state machine of odin_web (src/unnamed/part_000, the   *)
(* file duplicated as design_exploration/v2/common.js).                    *)
(*                                                                         *)
(* The handlers are modelled as the operations of the engine: each may be  *)
(* invoked in every state, with every argument, as the specification's     *)
(* operation contracts describe them.  One action is one whole handler     *)
(* (or one firing of the rest-timer callback), run to completion: the      *)
(* host is single-threaded, so handlers never interleave.                  *)
(*                                                                         *)
(* JavaScript arrays are sequences here; array index i is position i + 1.  *)
(* null is NULL for an exercise index, NoTimer for a timer id and "null"   *)
(* for the start timestamp; Date.now() is the one value "now", and the     *)
(* wall-clock text `at` of an entry is left out.  render(), the elapsed-   *)
(* time refresh interval and the notification permission request change    *)
(* no state and are left out.                                              *)
(***************************************************************************)
EXTENDS Integers, Sequences, FiniteSets, TLC

\* Bound of the model: entries recorded between two restarts.
MaxEntries == 3
\* Bound of the model: the largest reward addRewards is tried with.
MaxRewardPoints == 250

\* The walk-through is run on one-exercise workouts of up to MaxScenarioSets
\* sets with a rest of up to MaxScenarioRest seconds.
MaxScenarioSets == 3
MaxScenarioRest == 3

\* The side-by-side run of the v1 WorkoutFlow: sets per exercise, rest
\* seconds, and the highest set count a submit may produce.
MaxV1Sets == 2
MaxV1Rest == 1
MaxV1Counted == 3

NULL == -1
NoTimer == 0
\* setInterval never hands out an id twice; two ids are enough to tell a
\* countdown from the one it replaces.
TimerIds == {1, 2}

VARIABLES
    config,     \* window.DESIGN_CONFIG after defaulting: workout, rewards, initial
    state,      \* the `state` object
    toasts,     \* notices shown by the last handler, in order
    intervals,  \* ids of the repeating timers the host still has scheduled
    lastOp      \* the handler that ran last, with its arguments

vars == <<config, state, toasts, intervals, lastOp>>

----------------------------------------------------------------------------
(* Configuration *)

ScenarioWorkout ==
    << [targetReps |-> 10, setCount |-> 2, defaultWeight |-> 90, restSeconds |-> 3] >>

TwoExerciseWorkout ==
    << [targetReps |-> 10, setCount |-> 2, defaultWeight |-> 90, restSeconds |-> 1],
       [targetReps |-> 12, setCount |-> 1, defaultWeight |-> 80, restSeconds |-> 0] >>

\* A workout whose exercise list is empty: the code takes it as it comes.
EmptyWorkout == << >>

DefaultRewards ==
    [setPoints |-> 10, setCurrency |-> 5, exercisePoints |-> 25, exerciseCurrency |-> 12]

LargeRewards ==
    [setPoints |-> 250, setCurrency |-> 5, exercisePoints |-> 125, exerciseCurrency |-> 12]

DefaultInitial == [rank |-> 3, rankXp |-> 45, streak |-> 7, currency |-> 250]

OverfullInitial == [rank |-> 3, rankXp |-> 120, streak |-> 7, currency |-> 250]

Configs ==
    { [workout |-> ScenarioWorkout,    rewards |-> DefaultRewards, initial |-> DefaultInitial],
      [workout |-> TwoExerciseWorkout, rewards |-> DefaultRewards, initial |-> DefaultInitial],
      [workout |-> ScenarioWorkout,    rewards |-> LargeRewards,   initial |-> DefaultInitial] }

\* The code takes config.initial and config.workout as they come: a
\* configuration whose initial rankXp is not below 100, or whose exercise
\* list is empty, is constructed like any other.
UncheckedConfigs ==
    Configs \cup
    { [workout |-> ScenarioWorkout, rewards |-> DefaultRewards, initial |-> OverfullInitial],
      [workout |-> EmptyWorkout,    rewards |-> DefaultRewards, initial |-> DefaultInitial] }

workout == config.workout
rewards == config.rewards

NumExercises == Len(workout)
Indices == 0 .. (NumExercises - 1)

\* Arguments the handlers are tried with.
IndexInputs == -1 .. NumExercises
\* The form's two field values: every kind of reps value with a good weight,
\* every kind of weight value with a good reps value, and both bad.
FormInputs ==
    { <<"10", "90">>, <<"10", "">>,
      <<"", "90">>, <<"abc", "90">>, <<"0", "90">>, <<"-1", "90">>, <<"Infinity", "90">>,
      <<"10", "abc">>, <<"10", "-1">>, <<"10", "Infinity">>,
      <<"abc", "-1">> }

----------------------------------------------------------------------------
(* JavaScript values *)

Finite(n) == [kind |-> "finite", val |-> n]
NaN == [kind |-> "NaN", val |-> 0]
Infinity == [kind |-> "Infinity", val |-> 0]

\* Number(string) on the strings above: the empty string is 0, a decimal
\* literal is its value, "Infinity" is Infinity, anything else NaN.
Number(s) ==
    CASE s = "" -> Finite(0)
      [] s = "0" -> Finite(0)
      [] s = "-1" -> Finite(-1)
      [] s = "10" -> Finite(10)
      [] s = "90" -> Finite(90)
      [] s = "Infinity" -> Infinity
      [] OTHER -> NaN

isFinite(x) == x.kind = "finite"

\* x <= 0 and x < 0 on numbers: false for NaN and for Infinity.
LeqZero(x) == x.kind = "finite" /\ x.val <= 0
LtZero(x) == x.kind = "finite" /\ x.val < 0

At(arr, i) == arr[i + 1]
SetAt(arr, i, v) == [arr EXCEPT ![i + 1] = v]

Toast(msg, arg) == [msg |-> msg, arg |-> arg]

----------------------------------------------------------------------------
(* The state object and its readers *)

EmptyInput == [reps |-> "", weight |-> ""]

InitialState(cfg) ==
    [ screen           |-> "main",
      startedAt        |-> "null",
      selectedExercise |-> NULL,
      completedSets    |-> [i \in 1 .. Len(cfg.workout) |-> 0],
      entries          |-> [i \in 1 .. Len(cfg.workout) |-> <<>>],
      currentInput     |-> EmptyInput,
      restRemaining    |-> 0,
      restTimerStarted |-> FALSE,
      restTimerId      |-> NoTimer,
      inputSubmitted   |-> FALSE,
      rank             |-> cfg.initial.rank,
      rankXp           |-> cfg.initial.rankXp,
      streak           |-> cfg.initial.streak,
      currency         |-> cfg.initial.currency,
      sessionPoints    |-> 0 ]

\* workout.exercises[index] is undefined outside the array.
HasExercise(index) == index \in Indices
exerciseByIndex(index) == At(workout, index)

\* Mutant of lockedExerciseIndex: the comparison is reversed, so an exercise
\* in progress is never reported as locked.
lockedExerciseIndexReversed(s) ==
    IF s.selectedExercise = NULL THEN NULL
    ELSE IF ~HasExercise(s.selectedExercise) THEN NULL
    ELSE IF At(s.completedSets, s.selectedExercise)
              > exerciseByIndex(s.selectedExercise).setCount
         THEN s.selectedExercise
         ELSE NULL

lockedExerciseIndex(s) ==
    IF s.selectedExercise = NULL THEN NULL
    ELSE IF ~HasExercise(s.selectedExercise) THEN NULL
    ELSE IF At(s.completedSets, s.selectedExercise)
              < exerciseByIndex(s.selectedExercise).setCount
         THEN s.selectedExercise
         ELSE NULL

\* Mutant of allExercisesComplete: one complete exercise is enough.
allExercisesCompleteSome(s) ==
    \E idx \in Indices : At(s.completedSets, idx) >= exerciseByIndex(idx).setCount

allExercisesComplete(s) ==
    \A idx \in Indices : At(s.completedSets, idx) >= exerciseByIndex(idx).setCount

----------------------------------------------------------------------------
(* Handlers.  A handler maps a world w = [state, toasts, intervals] to the *)
(* world it leaves behind.                                                 *)

showToast(w, msg, arg) == [w EXCEPT !.toasts = Append(@, Toast(msg, arg))]

\* Mutant of LevelUp: one threshold is checked, with if in place of while.
LevelUpOnce(w) ==
    IF w.state.rankXp >= 100
    THEN showToast([w EXCEPT !.state.rankXp = @ - 100,
                             !.state.rank = @ + 1],
                   "Level up", w.state.rank + 1)
    ELSE w

\* while (state.rankXp >= 100) { ... }
RECURSIVE LevelUp(_)
LevelUp(w) ==
    IF w.state.rankXp >= 100
    THEN LevelUp(showToast([w EXCEPT !.state.rankXp = @ - 100,
                                     !.state.rank = @ + 1],
                           "Level up", w.state.rank + 1))
    ELSE w

addRewards(w, points, currency) ==
    LevelUp([w EXCEPT !.state.sessionPoints = @ + points,
                      !.state.rankXp = @ + points,
                      !.state.currency = @ + currency])

\* What the host makes of a desktop notification: the Notification API is
\* missing, permission is not granted, the notification is shown, or its
\* constructor throws.
NotificationChannels == {"unavailable", "denied", "granted", "throws"}

notifyTimerDone(w) ==
    LET w1 == showToast(w, "rest complete", w.state.selectedExercise) IN
    IF w.notification \in {"granted", "throws"}
    THEN IF w.notification = "throws"
         THEN w1
         ELSE [w1 EXCEPT !.notified = TRUE]
    ELSE w1

stopRestTimer(w) ==
    IF w.state.restTimerId # NoTimer
    THEN [w EXCEPT !.intervals = @ \ {w.state.restTimerId},
                   !.state.restTimerId = NoTimer]
    ELSE w

\* The id setInterval returns: not scheduled, and not the id just cleared.
NewTimerId(live, cleared) ==
    CHOOSE id \in TimerIds : id \notin live /\ id # cleared

beginRestTimer(w) ==
    LET stopped == stopRestTimer(w)
        id == NewTimerId(stopped.intervals, w.state.restTimerId)
    IN  [stopped EXCEPT !.intervals = @ \cup {id},
                        !.state.restTimerId = id]

\* Mutant of advanceAfterSet: setCount is taken for the index of the last set
\* (<= in the guard, > in the completion test).
advanceAfterSetOffByOne(w) ==
    LET idx == w.state.selectedExercise IN
    IF idx = NULL THEN w
    ELSE
      LET exercise == exerciseByIndex(idx)
          done == IF At(w.state.completedSets, idx) <= exercise.setCount
                  THEN At(w.state.completedSets, idx) + 1
                  ELSE At(w.state.completedSets, idx)
          w1 == [w EXCEPT !.state.completedSets = SetAt(@, idx, done),
                          !.state.restRemaining = 0,
                          !.state.restTimerStarted = FALSE,
                          !.state.inputSubmitted = FALSE]
      IN  IF done > exercise.setCount
          THEN LET w2 == addRewards(w1, rewards.exercisePoints, rewards.exerciseCurrency)
                   w3 == [w2 EXCEPT !.state.selectedExercise = NULL,
                                    !.state.currentInput = EmptyInput]
               IN  [w3 EXCEPT !.state.screen =
                        IF allExercisesComplete(w3.state) THEN "complete" ELSE "circuit"]
          ELSE [w1 EXCEPT !.state.screen = "progress"]

\* Mutant of advanceAfterSet: the exercise reward is granted on every set.
advanceAfterSetRewardsEverySet(w) ==
    LET idx == w.state.selectedExercise IN
    IF idx = NULL THEN w
    ELSE
      LET exercise == exerciseByIndex(idx)
          done == IF At(w.state.completedSets, idx) < exercise.setCount
                  THEN At(w.state.completedSets, idx) + 1
                  ELSE At(w.state.completedSets, idx)
          w1 == [w EXCEPT !.state.completedSets = SetAt(@, idx, done),
                          !.state.restRemaining = 0,
                          !.state.restTimerStarted = FALSE,
                          !.state.inputSubmitted = FALSE]
          w2 == addRewards(w1, rewards.exercisePoints, rewards.exerciseCurrency)
      IN  IF done >= exercise.setCount
          THEN LET w3 == [w2 EXCEPT !.state.selectedExercise = NULL,
                                    !.state.currentInput = EmptyInput]
               IN  [w3 EXCEPT !.state.screen =
                        IF allExercisesComplete(w3.state) THEN "complete" ELSE "circuit"]
          ELSE [w2 EXCEPT !.state.screen = "progress"]

\* Mutant of advanceAfterSet: the exercise reward is granted without its
\* currency.
advanceAfterSetWithoutCurrency(w) ==
    LET idx == w.state.selectedExercise IN
    IF idx = NULL THEN w
    ELSE
      LET exercise == exerciseByIndex(idx)
          done == IF At(w.state.completedSets, idx) < exercise.setCount
                  THEN At(w.state.completedSets, idx) + 1
                  ELSE At(w.state.completedSets, idx)
          w1 == [w EXCEPT !.state.completedSets = SetAt(@, idx, done),
                          !.state.restRemaining = 0,
                          !.state.restTimerStarted = FALSE,
                          !.state.inputSubmitted = FALSE]
      IN  IF done >= exercise.setCount
          THEN LET w2 == addRewards(w1, rewards.exercisePoints, 0)
                   w3 == [w2 EXCEPT !.state.selectedExercise = NULL,
                                    !.state.currentInput = EmptyInput]
               IN  [w3 EXCEPT !.state.screen =
                        IF allExercisesComplete(w3.state) THEN "complete" ELSE "circuit"]
          ELSE [w1 EXCEPT !.state.screen = "progress"]

advanceAfterSet(w) ==
    LET idx == w.state.selectedExercise IN
    IF idx = NULL THEN w
    ELSE
      LET exercise == exerciseByIndex(idx)
          done == IF At(w.state.completedSets, idx) < exercise.setCount
                  THEN At(w.state.completedSets, idx) + 1
                  ELSE At(w.state.completedSets, idx)
          w1 == [w EXCEPT !.state.completedSets = SetAt(@, idx, done),
                          !.state.restRemaining = 0,
                          !.state.restTimerStarted = FALSE,
                          !.state.inputSubmitted = FALSE]
      IN  IF done >= exercise.setCount
          THEN LET w2 == addRewards(w1, rewards.exercisePoints, rewards.exerciseCurrency)
                   w3 == [w2 EXCEPT !.state.selectedExercise = NULL,
                                    !.state.currentInput = EmptyInput]
               IN  [w3 EXCEPT !.state.screen =
                        IF allExercisesComplete(w3.state) THEN "complete" ELSE "circuit"]
          ELSE [w1 EXCEPT !.state.screen = "progress"]

\* Mutant of onRestTimerFinished: the set is advanced whether or not its
\* data was submitted.
onRestTimerFinishedAlwaysAdvances(w) ==
    advanceAfterSet(notifyTimerDone(stopRestTimer(w)))

\* Mutant of onRestTimerFinished: stopRestTimer is not called.
onRestTimerFinishedKeepsTimer(w) ==
    LET w1 == notifyTimerDone(w) IN
    IF w1.state.inputSubmitted
    THEN advanceAfterSet(w1)
    ELSE showToast([w1 EXCEPT !.state.screen = "input"], "Timer ended", 0)

\* Mutant of onRestTimerFinished: an exception of the notification call is
\* not caught and ends the handler.
onRestTimerFinishedUncaught(w) ==
    LET w1 == notifyTimerDone(stopRestTimer(w)) IN
    IF w.notification = "throws" THEN w1
    ELSE IF w1.state.inputSubmitted
    THEN advanceAfterSet(w1)
    ELSE showToast([w1 EXCEPT !.state.screen = "input"], "Timer ended", 0)

\* Mutant of onRestTimerFinished: the Input screen is shown whether or not
\* the set was submitted.
onRestTimerFinishedToInput(w) ==
    LET w1 == notifyTimerDone(stopRestTimer(w)) IN
    showToast([w1 EXCEPT !.state.screen = "input"], "Timer ended", 0)

onRestTimerFinished(w) ==
    LET w1 == notifyTimerDone(stopRestTimer(w)) IN
    IF w1.state.inputSubmitted
    THEN advanceAfterSet(w1)
    ELSE showToast([w1 EXCEPT !.state.screen = "input"], "Timer ended", 0)

\* Mutant of restTimerCallback: the decrement is not guarded by the test of
\* the remaining time.
restTimerCallbackAlwaysDecrements(w) ==
    LET w1 == [w EXCEPT !.state.restRemaining = @ - 1] IN
    IF w1.state.restRemaining <= 0 THEN onRestTimerFinished(w1) ELSE w1

\* The callback beginRestTimer schedules.
restTimerCallback(w) ==
    IF w.state.restRemaining > 0
    THEN LET w1 == [w EXCEPT !.state.restRemaining = @ - 1] IN
         IF w1.state.restRemaining = 0 THEN onRestTimerFinished(w1) ELSE w1
    ELSE onRestTimerFinished(w)

startWorkout(w) ==
    LET w1 == IF w.state.startedAt = "null"
              THEN [w EXCEPT !.state.startedAt = "now"]
              ELSE w
    IN  [w1 EXCEPT !.state.screen =
            IF allExercisesComplete(w1.state) THEN "complete" ELSE "circuit"]

\* Mutant of chooseExercise: restRemaining is not cleared.
chooseExerciseKeepsRest(w, index) ==
    LET lockedIdx == lockedExerciseIndex(w.state) IN
    IF lockedIdx # NULL /\ lockedIdx # index
    THEN showToast(w, "Finish first", lockedIdx)
    ELSE IF ~HasExercise(index) THEN w
    ELSE IF At(w.state.completedSets, index) >= exerciseByIndex(index).setCount
    THEN showToast(w, "complete", index)
    ELSE [w EXCEPT !.state.selectedExercise = index,
                   !.state.restTimerStarted = FALSE,
                   !.state.inputSubmitted = FALSE,
                   !.state.currentInput =
                       [reps |-> ToString(exerciseByIndex(index).targetReps),
                        weight |-> ToString(exerciseByIndex(index).defaultWeight)],
                   !.state.screen = "progress"]

\* chooseExercise without the reset of inputSubmitted.
chooseExerciseKeepsSubmitted(w, index) ==
    LET lockedIdx == lockedExerciseIndex(w.state) IN
    IF lockedIdx # NULL /\ lockedIdx # index
    THEN showToast(w, "Finish first", lockedIdx)
    ELSE IF ~HasExercise(index) THEN w
    ELSE IF At(w.state.completedSets, index) >= exerciseByIndex(index).setCount
    THEN showToast(w, "complete", index)
    ELSE [w EXCEPT !.state.selectedExercise = index,
                   !.state.restRemaining = 0,
                   !.state.restTimerStarted = FALSE,
                   !.state.currentInput =
                       [reps |-> ToString(exerciseByIndex(index).targetReps),
                        weight |-> ToString(exerciseByIndex(index).defaultWeight)],
                   !.state.screen = "progress"]

\* Mutant of chooseExercise: the lock on another exercise is not looked at.
chooseExerciseIgnoresLock(w, index) ==
    IF ~HasExercise(index) THEN w
    ELSE IF At(w.state.completedSets, index) >= exerciseByIndex(index).setCount
    THEN showToast(w, "complete", index)
    ELSE [w EXCEPT !.state.selectedExercise = index,
                   !.state.restRemaining = 0,
                   !.state.restTimerStarted = FALSE,
                   !.state.inputSubmitted = FALSE,
                   !.state.currentInput =
                       [reps |-> ToString(exerciseByIndex(index).targetReps),
                        weight |-> ToString(exerciseByIndex(index).defaultWeight)],
                   !.state.screen = "progress"]

\* Mutant of chooseExercise: a complete exercise is selected like any other.
chooseExerciseAcceptsComplete(w, index) ==
    LET lockedIdx == lockedExerciseIndex(w.state) IN
    IF lockedIdx # NULL /\ lockedIdx # index
    THEN showToast(w, "Finish first", lockedIdx)
    ELSE IF ~HasExercise(index) THEN w
    ELSE [w EXCEPT !.state.selectedExercise = index,
                   !.state.restRemaining = 0,
                   !.state.restTimerStarted = FALSE,
                   !.state.inputSubmitted = FALSE,
                   !.state.currentInput =
                       [reps |-> ToString(exerciseByIndex(index).targetReps),
                        weight |-> ToString(exerciseByIndex(index).defaultWeight)],
                   !.state.screen = "progress"]

chooseExercise(w, index) ==
    LET lockedIdx == lockedExerciseIndex(w.state) IN
    IF lockedIdx # NULL /\ lockedIdx # index
    THEN showToast(w, "Finish first", lockedIdx)
    ELSE IF ~HasExercise(index) THEN w
    ELSE IF At(w.state.completedSets, index) >= exerciseByIndex(index).setCount
    THEN showToast(w, "complete", index)
    ELSE [w EXCEPT !.state.selectedExercise = index,
                   !.state.restRemaining = 0,
                   !.state.restTimerStarted = FALSE,
                   !.state.inputSubmitted = FALSE,
                   !.state.currentInput =
                       [reps |-> ToString(exerciseByIndex(index).targetReps),
                        weight |-> ToString(exerciseByIndex(index).defaultWeight)],
                   !.state.screen = "progress"]

\* Mutant of enterResultData: the countdown is started on every call.
enterResultDataAlwaysStarts(w) ==
    LET idx == w.state.selectedExercise IN
    IF idx = NULL THEN showToast(w, "Select an exercise first", 0)
    ELSE
      LET w1 == beginRestTimer(
                  [w EXCEPT !.state.restRemaining = exerciseByIndex(idx).restSeconds,
                            !.state.restTimerStarted = TRUE])
      IN  [w1 EXCEPT !.state.screen = "input"]

enterResultData(w) ==
    LET idx == w.state.selectedExercise IN
    IF idx = NULL THEN showToast(w, "Select an exercise first", 0)
    ELSE
      LET w1 == IF ~w.state.restTimerStarted
                THEN beginRestTimer(
                       [w EXCEPT !.state.restRemaining = exerciseByIndex(idx).restSeconds,
                                 !.state.restTimerStarted = TRUE])
                ELSE w
      IN  [w1 EXCEPT !.state.screen = "input"]

\* Mutant of setNumber: the set is numbered from 0.
setNumberZeroBased(s, idx) == At(s.completedSets, idx)

\* const setNumber = state.completedSets[idx] + 1
setNumber(s, idx) == At(s.completedSets, idx) + 1

\* Mutant of grantSetReward: the points are passed for the currency too.
grantSetRewardPointsAsCurrency(w) == addRewards(w, rewards.setPoints, rewards.setPoints)

\* Mutant of grantSetReward: the points are granted, the currency is not.
grantSetRewardWithoutCurrency(w) == addRewards(w, rewards.setPoints, 0)

\* addRewards(rewards.setPoints, rewards.setCurrency)
grantSetReward(w) == addRewards(w, rewards.setPoints, rewards.setCurrency)

\* Mutant of submitSet: the countdown is started anew on every accepted set.
submitSetRestartsTimer(w, repsValue, weightValue) ==
    LET idx == w.state.selectedExercise
        reps == Number(repsValue)
        weight == Number(weightValue)
    IN
    IF idx = NULL THEN w
    ELSE IF w.state.inputSubmitted THEN showToast(w, "Set already submitted", 0)
    ELSE IF ~isFinite(reps) \/ LeqZero(reps) THEN showToast(w, "Enter valid rep count", 0)
    ELSE IF ~isFinite(weight) \/ LtZero(weight) THEN showToast(w, "Enter valid weight", 0)
    ELSE
      LET entry == [set |-> setNumber(w.state, idx), reps |-> reps.val, weight |-> weight.val]
          w1 == [w EXCEPT !.state.entries =
                     SetAt(@, idx, Append(At(w.state.entries, idx), entry))]
          w2 == grantSetReward(w1)
          w3 == [w2 EXCEPT !.state.inputSubmitted = TRUE]
          w4 == beginRestTimer(
                  [w3 EXCEPT !.state.restRemaining = exerciseByIndex(idx).restSeconds,
                             !.state.restTimerStarted = TRUE])
      IN  IF w4.state.restRemaining > 0
          THEN [w4 EXCEPT !.state.screen = "rest"]
          ELSE advanceAfterSet(w4)

\* Mutant of submitSet: the Rest screen is shown and a countdown is running
\* after every accepted set, whatever rest remains.
submitSetAlwaysRests(w, repsValue, weightValue) ==
    LET idx == w.state.selectedExercise
        reps == Number(repsValue)
        weight == Number(weightValue)
    IN
    IF idx = NULL THEN w
    ELSE IF w.state.inputSubmitted THEN showToast(w, "Set already submitted", 0)
    ELSE IF ~isFinite(reps) \/ LeqZero(reps) THEN showToast(w, "Enter valid rep count", 0)
    ELSE IF ~isFinite(weight) \/ LtZero(weight) THEN showToast(w, "Enter valid weight", 0)
    ELSE
      LET entry == [set |-> setNumber(w.state, idx), reps |-> reps.val, weight |-> weight.val]
          w1 == [w EXCEPT !.state.entries =
                     SetAt(@, idx, Append(At(w.state.entries, idx), entry))]
          w2 == grantSetReward(w1)
          w3 == [w2 EXCEPT !.state.inputSubmitted = TRUE]
          w4 == IF ~w3.state.restTimerStarted \/ w3.state.restRemaining = 0
                THEN beginRestTimer(
                       [w3 EXCEPT !.state.restRemaining = exerciseByIndex(idx).restSeconds,
                                  !.state.restTimerStarted = TRUE])
                ELSE w3
      IN  [w4 EXCEPT !.state.screen = "rest"]

submitSet(w, repsValue, weightValue) ==
    LET idx == w.state.selectedExercise
        reps == Number(repsValue)
        weight == Number(weightValue)
    IN
    IF idx = NULL THEN w
    ELSE IF w.state.inputSubmitted THEN showToast(w, "Set already submitted", 0)
    ELSE IF ~isFinite(reps) \/ LeqZero(reps) THEN showToast(w, "Enter valid rep count", 0)
    ELSE IF ~isFinite(weight) \/ LtZero(weight) THEN showToast(w, "Enter valid weight", 0)
    ELSE
      LET entry == [set |-> setNumber(w.state, idx), reps |-> reps.val, weight |-> weight.val]
          w1 == [w EXCEPT !.state.entries =
                     SetAt(@, idx, Append(At(w.state.entries, idx), entry))]
          w2 == grantSetReward(w1)
          w3 == [w2 EXCEPT !.state.inputSubmitted = TRUE]
          w4 == IF ~w3.state.restTimerStarted
                THEN beginRestTimer(
                       [w3 EXCEPT !.state.restRemaining = exerciseByIndex(idx).restSeconds,
                                  !.state.restTimerStarted = TRUE])
                ELSE w3
      IN  IF w4.state.restRemaining > 0
          THEN [w4 EXCEPT !.state.screen = "rest"]
          ELSE advanceAfterSet(w4)

\* Mutant of restartSession: the rest countdown is not stopped.
restartSessionKeepsTimer(w) ==
    [w EXCEPT !.state.screen = "main",
              !.state.startedAt = "null",
              !.state.selectedExercise = NULL,
              !.state.completedSets = [i \in 1 .. NumExercises |-> 0],
              !.state.entries = [i \in 1 .. NumExercises |-> <<>>],
              !.state.currentInput = EmptyInput,
              !.state.restRemaining = 0,
              !.state.restTimerStarted = FALSE,
              !.state.inputSubmitted = FALSE,
              !.state.sessionPoints = 0,
              !.state.rank = config.initial.rank,
              !.state.rankXp = config.initial.rankXp,
              !.state.streak = config.initial.streak,
              !.state.currency = config.initial.currency]

\* Mutant of restartSession: sessionPoints is not reset.
restartSessionKeepsPoints(w) ==
    LET w1 == stopRestTimer(w) IN
    [w1 EXCEPT !.state.screen = "main",
               !.state.startedAt = "null",
               !.state.selectedExercise = NULL,
               !.state.completedSets = [i \in 1 .. NumExercises |-> 0],
               !.state.entries = [i \in 1 .. NumExercises |-> <<>>],
               !.state.currentInput = EmptyInput,
               !.state.restRemaining = 0,
               !.state.restTimerStarted = FALSE,
               !.state.inputSubmitted = FALSE,
               !.state.rank = config.initial.rank,
               !.state.rankXp = config.initial.rankXp,
               !.state.streak = config.initial.streak,
               !.state.currency = config.initial.currency]

\* Every field is assigned in turn; restTimerId is what stopRestTimer left.
restartSession(w) ==
    LET w1 == stopRestTimer(w) IN
    [w1 EXCEPT !.state.screen = "main",
               !.state.startedAt = "null",
               !.state.selectedExercise = NULL,
               !.state.completedSets = [i \in 1 .. NumExercises |-> 0],
               !.state.entries = [i \in 1 .. NumExercises |-> <<>>],
               !.state.currentInput = EmptyInput,
               !.state.restRemaining = 0,
               !.state.restTimerStarted = FALSE,
               !.state.inputSubmitted = FALSE,
               !.state.sessionPoints = 0,
               !.state.rank = config.initial.rank,
               !.state.rankXp = config.initial.rankXp,
               !.state.streak = config.initial.streak,
               !.state.currency = config.initial.currency]

----------------------------------------------------------------------------
(* Actions *)

\* The world a handler starts in: the toast region shows what it adds,
\* notification is what the host will make of a desktop notification during
\* this handler, notified whether one was shown.
WorldVia(channel) ==
    [state |-> state, toasts |-> <<>>, intervals |-> intervals,
     notification |-> channel, notified |-> FALSE]

World == WorldVia("granted")

Op(name, index, reps, weight) ==
    [op |-> name, index |-> index, reps |-> reps, weight |-> weight]

TickOp(id, channel) ==
    [op |-> "tick", index |-> id, reps |-> "", weight |-> "", channel |-> channel]

Becomes(w, op) ==
    /\ state' = w.state
    /\ toasts' = w.toasts
    /\ intervals' = w.intervals
    /\ lastOp' = op
    /\ UNCHANGED config

RECURSIVE SumLen(_)
SumLen(seqs) == IF seqs = <<>> THEN 0 ELSE Len(Head(seqs)) + SumLen(Tail(seqs))
TotalEntries(s) == SumLen(s.entries)

StartWorkout == Becomes(startWorkout(World), Op("startWorkout", NULL, "", ""))

ChooseExercise ==
    \E index \in IndexInputs :
        Becomes(chooseExercise(World, index), Op("chooseExercise", index, "", ""))

EnterResultData == Becomes(enterResultData(World), Op("enterResultData", NULL, "", ""))

SubmitSet ==
    \E form \in FormInputs :
        LET w == submitSet(World, form[1], form[2]) IN
        /\ TotalEntries(w.state) <= MaxEntries
        /\ Becomes(w, Op("submitSet", NULL, form[1], form[2]))

\* lastOp.index of a restart is the timer id that was pending when it ran.
RestartSession ==
    Becomes(restartSession(World), Op("restartSession", state.restTimerId, "", ""))

\* One firing of a scheduled repeating timer.
Tick ==
    \E id \in intervals, channel \in NotificationChannels :
        Becomes(restTimerCallback(WorldVia(channel)), TickOp(id, channel))

Init ==
    /\ config \in Configs
    /\ state = InitialState(config)
    /\ toasts = <<>>
    /\ intervals = {}
    /\ lastOp = Op("init", NULL, "", "")

Next ==
    \/ StartWorkout
    \/ ChooseExercise
    \/ EnterResultData
    \/ SubmitSet
    \/ RestartSession
    \/ Tick

Spec == Init /\ [][Next]_vars

\* addRewards on its own: from a session whose rankXp is any value below
\* 100, one call with any reward up to MaxRewardPoints.
RewardCurrencies == {0, 5, 12}

RewardInit ==
    /\ config = [workout |-> ScenarioWorkout, rewards |-> DefaultRewards,
                 initial |-> DefaultInitial]
    /\ \E xp \in 0 .. 99 : state = [InitialState(config) EXCEPT !.rankXp = xp]
    /\ toasts = <<>>
    /\ intervals = {}
    /\ lastOp = Op("init", NULL, "", "")

AddRewards ==
    /\ lastOp.op = "init"
    /\ \E points \in 0 .. MaxRewardPoints, currency \in RewardCurrencies :
          Becomes(addRewards(World, points, currency),
                  [op |-> "addRewards", points |-> points, currency |-> currency])

RewardSpec == RewardInit /\ [][AddRewards]_vars

\* The same machine, constructed from any configuration the code accepts.
InitUnchecked ==
    /\ config \in UncheckedConfigs
    /\ state = InitialState(config)
    /\ toasts = <<>>
    /\ intervals = {}
    /\ lastOp = Op("init", NULL, "", "")

SpecUnchecked == InitUnchecked /\ [][Next]_vars

\* The same machine under a configuration that sets globalRestSeconds, the
\* key src/design_exploration/v2/common.js reads and this engine does not.
OverrideConfigs ==
    { [workout |-> ScenarioWorkout, rewards |-> DefaultRewards,
       initial |-> DefaultInitial, globalRestSeconds |-> 1] }

InitOverride ==
    /\ config \in OverrideConfigs
    /\ state = InitialState(config)
    /\ toasts = <<>>
    /\ intervals = {}
    /\ lastOp = Op("init", NULL, "", "")

SpecOverride == InitOverride /\ [][Next]_vars

\* The walk-through of a session: on every screen the user takes the one
\* step that screen offers towards the end of the workout, entering 10 reps
\* at 90 each time, and the rest countdown ticks while the Rest screen shows.
ScenarioConfig ==
    [workout |-> ScenarioWorkout, rewards |-> DefaultRewards, initial |-> DefaultInitial]

ScenarioConfigs ==
    { [workout |-> << [targetReps |-> 10, setCount |-> n,
                       defaultWeight |-> 90, restSeconds |-> r] >>,
       rewards |-> DefaultRewards, initial |-> DefaultInitial] :
        n \in 1 .. MaxScenarioSets, r \in 0 .. MaxScenarioRest }

ScenarioInit ==
    /\ config \in ScenarioConfigs
    /\ state = InitialState(config)
    /\ toasts = <<>>
    /\ intervals = {}
    /\ lastOp = Op("init", NULL, "", "")

ScenarioStartWorkout ==
    /\ state.screen = "main"
    /\ Becomes(startWorkout(World), Op("startWorkout", NULL, "", ""))

ScenarioChooseExercise ==
    /\ state.screen = "circuit"
    /\ Becomes(chooseExercise(World, 0), Op("chooseExercise", 0, "", ""))

ScenarioEnterResultData ==
    /\ state.screen = "progress"
    /\ Becomes(enterResultData(World), Op("enterResultData", NULL, "", ""))

ScenarioSubmitSet ==
    /\ state.screen = "input"
    /\ Becomes(submitSet(World, "10", "90"), Op("submitSet", NULL, "10", "90"))

ScenarioTick ==
    /\ state.screen = "rest"
    /\ \E id \in intervals :
          Becomes(restTimerCallback(World), TickOp(id, "granted"))

ScenarioNext ==
    \/ ScenarioStartWorkout
    \/ ScenarioChooseExercise
    \/ ScenarioEnterResultData
    \/ ScenarioSubmitSet
    \/ ScenarioTick

ScenarioSpec == ScenarioInit /\ [][ScenarioNext]_vars

\* The host runs the callback of a scheduled interval again and again: a
\* tick that stays possible is delivered.
FairSpec == Spec /\ WF_vars(Tick)

FairScenarioSpec == ScenarioSpec /\ WF_vars(ScenarioNext)

----------------------------------------------------------------------------
(* The second copy of the engine, src/design_exploration/v2/common.js.     *)
(* Its definitions carry the prefix v2_ and are translated from that file. *)

\* Number(config.globalRestSeconds): NaN when the configuration has none.
v2_globalRestSeconds ==
    IF "globalRestSeconds" \in DOMAIN config
    THEN Finite(config.globalRestSeconds)
    ELSE NaN

\* The workout the copy runs: every exercise's restSeconds gives way to a
\* finite globalRestSeconds.
v2_workout ==
    [i \in 1 .. Len(config.workout) |->
        [config.workout[i] EXCEPT !.restSeconds =
            IF isFinite(v2_globalRestSeconds) THEN v2_globalRestSeconds.val ELSE @]]

v2_InitialState ==
    [ screen           |-> "main",
      startedAt        |-> "null",
      selectedExercise |-> NULL,
      completedSets    |-> [i \in 1 .. Len(v2_workout) |-> 0],
      entries          |-> [i \in 1 .. Len(v2_workout) |-> <<>>],
      currentInput     |-> EmptyInput,
      restRemaining    |-> 0,
      restTimerStarted |-> FALSE,
      restTimerId      |-> NoTimer,
      inputSubmitted   |-> FALSE,
      rank             |-> config.initial.rank,
      rankXp           |-> config.initial.rankXp,
      streak           |-> config.initial.streak,
      currency         |-> config.initial.currency,
      sessionPoints    |-> 0 ]

v2_HasExercise(index) == index \in 0 .. Len(v2_workout) - 1

v2_exerciseByIndex(index) == v2_workout[index + 1]

v2_lockedExerciseIndex(s) ==
    IF s.selectedExercise = NULL THEN NULL
    ELSE IF ~v2_HasExercise(s.selectedExercise) THEN NULL
    ELSE IF At(s.completedSets, s.selectedExercise)
              < v2_exerciseByIndex(s.selectedExercise).setCount
         THEN s.selectedExercise
         ELSE NULL

v2_allExercisesComplete(s) ==
    \A idx \in 0 .. Len(v2_workout) - 1 :
        At(s.completedSets, idx) >= v2_exerciseByIndex(idx).setCount

RECURSIVE v2_LevelUp(_)
v2_LevelUp(w) ==
    IF w.state.rankXp >= 100
    THEN v2_LevelUp(showToast([w EXCEPT !.state.rankXp = @ - 100,
                                        !.state.rank = @ + 1],
                              "Level up.", w.state.rank + 1))
    ELSE w

v2_addRewards(w, points, currency) ==
    v2_LevelUp([w EXCEPT !.state.sessionPoints = @ + points,
                         !.state.rankXp = @ + points,
                         !.state.currency = @ + currency])

v2_notifyTimerDone(w) ==
    LET w1 == showToast(w, "rest window completed.", w.state.selectedExercise) IN
    IF w.notification \in {"granted", "throws"}
    THEN IF w.notification = "throws"
         THEN showToast(w1, "Notification call failed in this context.", 0)
         ELSE [w1 EXCEPT !.notified = TRUE]
    ELSE w1

v2_stopRestTimer(w) ==
    IF w.state.restTimerId # NoTimer
    THEN [w EXCEPT !.intervals = @ \ {w.state.restTimerId},
                   !.state.restTimerId = NoTimer]
    ELSE w

v2_beginRestTimer(w) ==
    LET stopped == v2_stopRestTimer(w)
        id == NewTimerId(stopped.intervals, w.state.restTimerId)
    IN  [stopped EXCEPT !.intervals = @ \cup {id},
                        !.state.restTimerId = id]

v2_advanceAfterSet(w) ==
    LET idx == w.state.selectedExercise IN
    IF idx = NULL THEN w
    ELSE
      LET exercise == v2_exerciseByIndex(idx)
          done == IF At(w.state.completedSets, idx) < exercise.setCount
                  THEN At(w.state.completedSets, idx) + 1
                  ELSE At(w.state.completedSets, idx)
          w1 == [w EXCEPT !.state.completedSets = SetAt(@, idx, done),
                          !.state.restRemaining = 0,
                          !.state.restTimerStarted = FALSE,
                          !.state.inputSubmitted = FALSE]
      IN  IF done >= exercise.setCount
          THEN LET w2 == v2_addRewards(w1, rewards.exercisePoints,
                                       rewards.exerciseCurrency)
                   w3 == [w2 EXCEPT !.state.selectedExercise = NULL,
                                    !.state.currentInput = EmptyInput]
               IN  [w3 EXCEPT !.state.screen =
                        IF v2_allExercisesComplete(w3.state)
                        THEN "complete" ELSE "circuit"]
          ELSE [w1 EXCEPT !.state.screen = "progress"]

v2_onRestTimerFinished(w) ==
    LET w1 == v2_notifyTimerDone(v2_stopRestTimer(w)) IN
    IF w1.state.inputSubmitted
    THEN v2_advanceAfterSet(w1)
    ELSE showToast([w1 EXCEPT !.state.screen = "input"],
                   "Timer ended. Submit your set data to continue.", 0)

v2_restTimerCallback(w) ==
    IF w.state.restRemaining > 0
    THEN LET w1 == [w EXCEPT !.state.restRemaining = @ - 1] IN
         IF w1.state.restRemaining = 0 THEN v2_onRestTimerFinished(w1) ELSE w1
    ELSE v2_onRestTimerFinished(w)

v2_startWorkout(w) ==
    LET w1 == IF w.state.startedAt = "null"
              THEN [w EXCEPT !.state.startedAt = "now"]
              ELSE w
    IN  [w1 EXCEPT !.state.screen =
            IF v2_allExercisesComplete(w1.state) THEN "complete" ELSE "circuit"]

v2_chooseExercise(w, index) ==
    LET lockedIdx == v2_lockedExerciseIndex(w.state) IN
    IF lockedIdx # NULL /\ lockedIdx # index
    THEN showToast(w, "Flow locked on", lockedIdx)
    ELSE IF ~v2_HasExercise(index) THEN w
    ELSE IF At(w.state.completedSets, index) >= v2_exerciseByIndex(index).setCount
    THEN showToast(w, "is already complete.", index)
    ELSE [w EXCEPT !.state.selectedExercise = index,
                   !.state.restRemaining = 0,
                   !.state.restTimerStarted = FALSE,
                   !.state.inputSubmitted = FALSE,
                   !.state.currentInput =
                       [reps |-> ToString(v2_exerciseByIndex(index).targetReps),
                        weight |-> ToString(v2_exerciseByIndex(index).defaultWeight)],
                   !.state.screen = "progress"]

v2_enterResultData(w) ==
    LET idx == w.state.selectedExercise IN
    IF idx = NULL THEN showToast(w, "Select an exercise first.", 0)
    ELSE
      LET w1 == IF ~w.state.restTimerStarted
                THEN v2_beginRestTimer(
                       [w EXCEPT !.state.restRemaining =
                                     v2_exerciseByIndex(idx).restSeconds,
                                 !.state.restTimerStarted = TRUE])
                ELSE w
      IN  [w1 EXCEPT !.state.screen = "input"]

v2_submitSet(w, repsValue, weightValue) ==
    LET idx == w.state.selectedExercise
        reps == Number(repsValue)
        weight == Number(weightValue)
    IN
    IF idx = NULL THEN w
    ELSE IF w.state.inputSubmitted
    THEN showToast(w, "Set already submitted. Awaiting flow transition.", 0)
    ELSE IF ~isFinite(reps) \/ LeqZero(reps)
    THEN showToast(w, "Enter a valid rep count.", 0)
    ELSE IF ~isFinite(weight) \/ LtZero(weight)
    THEN showToast(w, "Enter a valid weight.", 0)
    ELSE
      LET entry == [set |-> At(w.state.completedSets, idx) + 1,
                    reps |-> reps.val, weight |-> weight.val]
          w1 == [w EXCEPT !.state.entries =
                     SetAt(@, idx, Append(At(w.state.entries, idx), entry))]
          w2 == v2_addRewards(w1, rewards.setPoints, rewards.setCurrency)
          w3 == [w2 EXCEPT !.state.inputSubmitted = TRUE]
          w4 == IF ~w3.state.restTimerStarted
                THEN v2_beginRestTimer(
                       [w3 EXCEPT !.state.restRemaining =
                                      v2_exerciseByIndex(idx).restSeconds,
                                  !.state.restTimerStarted = TRUE])
                ELSE w3
      IN  IF w4.state.restRemaining > 0
          THEN [w4 EXCEPT !.state.screen = "rest"]
          ELSE v2_advanceAfterSet(w4)

v2_restartSession(w) ==
    LET w1 == v2_stopRestTimer(w) IN
    [w1 EXCEPT !.state.screen = "main",
               !.state.startedAt = "null",
               !.state.selectedExercise = NULL,
               !.state.completedSets = [i \in 1 .. Len(v2_workout) |-> 0],
               !.state.entries = [i \in 1 .. Len(v2_workout) |-> <<>>],
               !.state.currentInput = EmptyInput,
               !.state.restRemaining = 0,
               !.state.restTimerStarted = FALSE,
               !.state.inputSubmitted = FALSE,
               !.state.sessionPoints = 0,
               !.state.rank = config.initial.rank,
               !.state.rankXp = config.initial.rankXp,
               !.state.streak = config.initial.streak,
               !.state.currency = config.initial.currency]

\* The world the copy leaves when its event listeners or its interval
\* callback receive the event op in world w.
v2_Dispatch(w, op) ==
    CASE op.op = "startWorkout"    -> v2_startWorkout(w)
      [] op.op = "chooseExercise"  -> v2_chooseExercise(w, op.index)
      [] op.op = "enterResultData" -> v2_enterResultData(w)
      [] op.op = "submitSet"       -> v2_submitSet(w, op.reps, op.weight)
      [] op.op = "restartSession"  -> v2_restartSession(w)
      [] op.op = "tick"            -> v2_restTimerCallback(w)

----------------------------------------------------------------------------
(* Vocabulary of the properties *)

SetCount(i) == exerciseByIndex(i).setCount
Completed(s, i) == At(s.completedSets, i)
IsComplete(s, i) == Completed(s, i) >= SetCount(i)

HasToast(msg) == \E k \in 1 .. Len(toasts) : toasts[k].msg = msg

\* The form values submitSet accepts: reps a finite number > 0, weight a
\* finite number >= 0.
ValidReps(r) == Number(r).kind = "finite" /\ Number(r).val > 0
ValidWeight(v) == Number(v).kind = "finite" /\ Number(v).val >= 0

\* submitSet(reps, weight) called in state s records a set.
Accepts(s, r, v) ==
    /\ s.selectedExercise # NULL
    /\ ~s.inputSubmitted
    /\ ValidReps(r)
    /\ ValidWeight(v)

----------------------------------------------------------------------------
(* C1 *)

\* C1: after any sequence of startWorkout, chooseExercise, enterResultData,
\* submitSet, restartSession and timer ticks, completedSets[i] <= setCount of
\* exercise i, for every exercise i (every workout here has setCount > 0 and
\* restSeconds >= 0).
C1_CompletedSetsWithinSetCount ==
    \A i \in Indices : Completed(state, i) <= SetCount(i)

\* An exercise has had its last set counted, by a tick or by a submission.
C1_Witness ==
    /\ lastOp.op \in {"tick", "submitSet"}
    /\ \E i \in Indices : Completed(state, i) = SetCount(i)

----------------------------------------------------------------------------
(* C2 *)

\* C2: once an exercise i is selected, the selection changes only to none,
\* and only in the step in which completedSets[i] reaches setCount or in a
\* restart; it never moves from i straight to another exercise.
C2_SelectionStep ==
    LET i == state.selectedExercise IN
    (i # NULL /\ state'.selectedExercise # i) =>
        /\ state'.selectedExercise = NULL
        /\ \/ lastOp'.op = "restartSession"
           \/ /\ Completed(state, i) < SetCount(i)
              /\ Completed(state', i) = SetCount(i)

C2_LockedSelectionOnlyClears == [][C2_SelectionStep]_vars

\* Another exercise was asked for while one was locked, and was refused.
C2_Witness ==
    /\ lastOp.op = "chooseExercise"
    /\ lastOp.index \in Indices
    /\ state.selectedExercise # NULL
    /\ state.selectedExercise # lastOp.index
    /\ HasToast("Finish first")

----------------------------------------------------------------------------
(* C3 *)

NoRepeatedSetNumber(s) ==
    \A i \in Indices :
        \A a, b \in 1 .. Len(At(s.entries, i)) :
            a # b => At(s.entries, i)[a].set # At(s.entries, i)[b].set

\* C3: at most one entry is recorded per set: no two entries of an exercise
\* carry the same set number, and a submitSet issued while inputSubmitted is
\* true leaves the session state unchanged.
C3_Step ==
    /\ NoRepeatedSetNumber(state')
    /\ (lastOp'.op = "submitSet" /\ state.inputSubmitted) => state' = state

C3_OneEntryPerSet == [][C3_Step]_vars

----------------------------------------------------------------------------
(* C4 *)

\* chooseExercise(index) is refused in state s.
RefusedSelection(s, index) ==
    \/ ~HasExercise(index)
    \/ IsComplete(s, index)
    \/ (lockedExerciseIndex(s) # NULL /\ lockedExerciseIndex(s) # index)

\* C4: chooseExercise(index) with an index out of range, or of a complete
\* exercise, or while another exercise is locked, leaves every field of the
\* session state unchanged and shows a notice, in each of the three cases.
C4_Step ==
    (lastOp'.op = "chooseExercise" /\ RefusedSelection(state, lastOp'.index)) =>
        /\ state' = state
        /\ intervals' = intervals
        /\ toasts' # <<>>

C4_RefusedSelectionNotifies == [][C4_Step]_vars

\* The part of C4 the code keeps: a refused selection changes no field.
C4_RefusedSelectionChangesNothing ==
    [][(lastOp'.op = "chooseExercise" /\ RefusedSelection(state, lastOp'.index)) =>
          (state' = state /\ intervals' = intervals)]_vars

----------------------------------------------------------------------------
(* C5 *)

\* C5: submitSet with reps that is not a finite number > 0, or weight that
\* is not a finite number >= 0, for a set not yet submitted, is rejected: no
\* entry is appended, the counters, the screen and the rest-timer fields are
\* unchanged, inputSubmitted stays false, and a notice is shown.
C5_Step ==
    ( /\ lastOp'.op = "submitSet"
      /\ ~state.inputSubmitted
      /\ ~(ValidReps(lastOp'.reps) /\ ValidWeight(lastOp'.weight)) ) =>
        /\ state' = state
        /\ intervals' = intervals
        /\ toasts' # <<>>

C5_InvalidInputRejectedWithNotice == [][C5_Step]_vars

\* What the code does with invalid input: nothing changes in any state, and
\* the notice is shown when an exercise is selected.
C5_InvalidInputRejected ==
    [][( /\ lastOp'.op = "submitSet"
         /\ ~state.inputSubmitted
         /\ ~(ValidReps(lastOp'.reps) /\ ValidWeight(lastOp'.weight)) ) =>
           /\ state' = state
           /\ intervals' = intervals
           /\ (state.selectedExercise # NULL =>
                 (HasToast("Enter valid rep count")' \/ HasToast("Enter valid weight")'))]_vars

----------------------------------------------------------------------------
(* C6 *)

\* C6: enterResultData and submitSet, called with no exercise selected, are
\* each rejected: the session state is unchanged and a notice is shown, by
\* both operations.
C6_Step ==
    ( /\ lastOp'.op \in {"enterResultData", "submitSet"}
      /\ state.selectedExercise = NULL ) =>
        /\ state' = state
        /\ intervals' = intervals
        /\ toasts' # <<>>

C6_NoSelectionRejectedWithNotice == [][C6_Step]_vars

\* What the code does: both change nothing, enterResultData alone notifies.
C6_NoSelectionRejected ==
    [][( /\ lastOp'.op \in {"enterResultData", "submitSet"}
         /\ state.selectedExercise = NULL ) =>
           /\ state' = state
           /\ intervals' = intervals
           /\ (lastOp'.op = "enterResultData" => toasts' # <<>>)]_vars

----------------------------------------------------------------------------
(* C7 *)

IsPrefix(a, b) == Len(a) <= Len(b) /\ \A k \in 1 .. Len(a) : b[k] = a[k]

\* C7: an accepted submitSet appends exactly one entry to the entries of the
\* selected exercise, numbered completedSets[selected] + 1 as read before any
\* increment, and leaves the entries of every other exercise as they are; no
\* step but a restart removes or rewrites an entry.
C7_Step ==
    LET sel == state.selectedExercise IN
    /\ (lastOp'.op = "submitSet" /\ Accepts(state, lastOp'.reps, lastOp'.weight)) =>
          /\ Len(At(state'.entries, sel)) = Len(At(state.entries, sel)) + 1
          /\ IsPrefix(At(state.entries, sel), At(state'.entries, sel))
          /\ At(state'.entries, sel)[Len(At(state'.entries, sel))] =
                [set |-> Completed(state, sel) + 1,
                 reps |-> Number(lastOp'.reps).val,
                 weight |-> Number(lastOp'.weight).val]
          /\ \A i \in Indices \ {sel} : At(state'.entries, i) = At(state.entries, i)
    /\ lastOp'.op # "restartSession" =>
          \A i \in Indices : IsPrefix(At(state.entries, i), At(state'.entries, i))
    /\ ~(lastOp'.op = "submitSet" /\ Accepts(state, lastOp'.reps, lastOp'.weight)) =>
          (lastOp'.op # "restartSession" => state'.entries = state.entries)

C7_EntriesAppendOnly == [][C7_Step]_vars

\* A second set was recorded after the first one was counted.
C7_Witness ==
    /\ lastOp.op = "submitSet"
    /\ \E i \in Indices :
          /\ Len(At(state.entries, i)) = 2
          /\ At(state.entries, i)[1].set = 1
          /\ At(state.entries, i)[2].set = 2

----------------------------------------------------------------------------
(* C8 *)

\* C8: an accepted submitSet grants the per-set reward in the same step:
\* sessionPoints grows by rewards.setPoints and currency by
\* rewards.setCurrency (on top of the exercise reward, when the step also
\* completes the exercise), whether the step ends on the rest screen or
\* advances the set at once.
C8_Step ==
    LET sel == state.selectedExercise IN
    (lastOp'.op = "submitSet" /\ Accepts(state, lastOp'.reps, lastOp'.weight)) =>
        LET finished == Completed(state', sel) = SetCount(sel) IN
        /\ state'.sessionPoints = state.sessionPoints + rewards.setPoints
                + (IF finished THEN rewards.exercisePoints ELSE 0)
        /\ state'.currency = state.currency + rewards.setCurrency
                + (IF finished THEN rewards.exerciseCurrency ELSE 0)
        /\ (state'.screen = "rest" => ~finished /\ state'.restRemaining > 0)
        /\ (state'.screen # "rest" =>
                Completed(state', sel) = Completed(state, sel) + 1)

C8_SetRewardOnAcceptance == [][C8_Step]_vars

\* A set was just accepted into the rest screen, after the one set of the
\* exercise without rest was accepted and advanced at once.
C8_Witness ==
    /\ lastOp.op = "submitSet"
    /\ state.screen = "rest"
    /\ state.inputSubmitted
    /\ \E i \in Indices : exerciseByIndex(i).restSeconds = 0 /\ IsComplete(state, i)

----------------------------------------------------------------------------
(* C9 *)

\* C9: for every old rankXp in 0..99 and every reward p >= 0, p >= 100
\* included, addRewards(p, c) leaves rankXp = (old + p) mod 100, raises rank
\* by (old + p) div 100, sessionPoints by p and currency by c, and shows one
\* level-up notice per rank gained.
C9_Step ==
    (lastOp'.op = "addRewards" /\ state.rankXp \in 0 .. 99) =>
        LET p == lastOp'.points
            c == lastOp'.currency
            gained == (state.rankXp + p) \div 100
        IN  /\ state'.rankXp = (state.rankXp + p) % 100
            /\ state'.rank = state.rank + gained
            /\ state'.sessionPoints = state.sessionPoints + p
            /\ state'.currency = state.currency + c
            /\ Len(toasts') = gained
            /\ \A k \in 1 .. gained : toasts'[k] = Toast("Level up", state.rank + k)
            /\ state' = [state EXCEPT !.rankXp = state'.rankXp,
                                      !.rank = state'.rank,
                                      !.sessionPoints = state'.sessionPoints,
                                      !.currency = state'.currency]

C9_AddRewardsRollsOver == [][C9_Step]_vars

\* One reward crossed two thresholds.
C9_Witness ==
    /\ lastOp.op = "addRewards"
    /\ lastOp.points >= 200
    /\ state.rank = DefaultInitial.rank + 2
    /\ Len(toasts) = 2

----------------------------------------------------------------------------
(* C10 *)

\* C10: rankXp is in [0, 100) in every reachable state, the state right
\* after construction from the configured initial values and the state right
\* after a restart included.
C10_RankXpBelow100 == state.rankXp \in 0 .. 99

\* What the code keeps: rankXp is below 100 whenever the configured initial
\* rankXp is, and from the first reward on in any case.
C10_RankXpBelow100WhenConfiguredSo ==
    (config.initial.rankXp \in 0 .. 99 \/ state.sessionPoints > 0) =>
        state.rankXp \in 0 .. 99

----------------------------------------------------------------------------
(* C11 *)

\* C11: enterResultData called twice in a row, with an exercise selected and
\* no tick in between, leaves restRemaining, restTimerStarted and the pending
\* countdown as they were after the first call: the second call neither
\* resets the remaining time nor replaces the countdown.
C11_Step ==
    ( /\ lastOp.op = "enterResultData"
      /\ lastOp'.op = "enterResultData"
      /\ state.selectedExercise # NULL ) =>
        /\ state'.restRemaining = state.restRemaining
        /\ state'.restTimerStarted = state.restTimerStarted
        /\ state'.restTimerId = state.restTimerId
        /\ intervals' = intervals

\* The same for a call on a countdown that is already started, whatever ran
\* before it.
C11_StartedStep ==
    ( /\ lastOp'.op = "enterResultData"
      /\ state.selectedExercise # NULL
      /\ state.restTimerStarted ) =>
        /\ state'.restRemaining = state.restRemaining
        /\ state'.restTimerStarted
        /\ state'.restTimerId = state.restTimerId
        /\ intervals' = intervals

C11_EnterResultDataStartsTimerOnce == [][C11_Step /\ C11_StartedStep]_vars

\* enterResultData ran on a countdown that had already been ticking, and
\* the countdown goes on from where it was.
C11_Witness ==
    /\ lastOp.op = "enterResultData"
    /\ state.selectedExercise # NULL
    /\ state.restTimerStarted
    /\ state.restTimerId \in intervals
    /\ state.restRemaining > 0
    /\ state.restRemaining < exerciseByIndex(state.selectedExercise).restSeconds

----------------------------------------------------------------------------
(* C12 *)

\* C12: from every reachable state, restartSession leaves a session state
\* equal, field by field, to the state right after construction with the
\* same configuration, the timer id included.
C12_Step ==
    lastOp'.op = "restartSession" =>
        /\ state'.screen = "main"
        /\ state'.startedAt = "null"
        /\ state'.selectedExercise = NULL
        /\ \A i \in Indices : Completed(state', i) = 0 /\ At(state'.entries, i) = <<>>
        /\ state'.currentInput = [reps |-> "", weight |-> ""]
        /\ state'.restRemaining = 0
        /\ ~state'.restTimerStarted
        /\ state'.restTimerId = NoTimer
        /\ ~state'.inputSubmitted
        /\ state'.rank = config.initial.rank
        /\ state'.rankXp = config.initial.rankXp
        /\ state'.streak = config.initial.streak
        /\ state'.currency = config.initial.currency
        /\ state'.sessionPoints = 0
        /\ state' = InitialState(config)

C12_RestartEqualsConstruction == [][C12_Step]_vars

\* A restart that ran while a countdown was pending.
C12_Witness ==
    /\ lastOp.op = "restartSession"
    /\ lastOp.index # NoTimer
    /\ state = InitialState(config)

----------------------------------------------------------------------------
(* C13 *)

\* C13: restartSession cancels the pending rest countdown: after a restart no
\* timer is scheduled, so no callback of a countdown started before it fires,
\* and no timer is scheduled again until enterResultData or submitSet starts
\* a new countdown.
C13_Step ==
    /\ lastOp'.op = "restartSession" =>
          (intervals' = {} /\ state'.restTimerId = NoTimer)
    /\ (intervals = {} /\ intervals' # {}) =>
          lastOp'.op \in {"enterResultData", "submitSet"}
    /\ lastOp'.op = "tick" => lastOp'.index \in intervals
    /\ intervals' \subseteq {state'.restTimerId}

C13_RestartCancelsCountdown == [][C13_Step]_vars

\* A restart ran while a countdown was pending, and left none.
C13_Witness ==
    /\ lastOp.op = "restartSession"
    /\ lastOp.index \in TimerIds
    /\ intervals = {}

----------------------------------------------------------------------------
(* C14 *)

\* C14: a successful chooseExercise stops the rest countdown that is still
\* pending: right after a successful selection no countdown is pending, and
\* no tick finds a selection whose countdown was not started since.
C14_Step ==
    /\ (lastOp'.op = "chooseExercise" /\ ~RefusedSelection(state, lastOp'.index)) =>
          (intervals' = {} /\ state'.restTimerId = NoTimer)
    /\ lastOp'.op = "tick" =>
          (state.restTimerStarted \/ state.selectedExercise = NULL)

C14_SelectionStopsCountdown == [][C14_Step]_vars

----------------------------------------------------------------------------
(* C15 *)

RestCompleteToasts == Len(SelectSeq(toasts, LAMBDA t : t.msg = "rest complete"))

\* C15: onRestTimerFinished runs exactly once per countdown, in the tick that
\* finds the remaining time 0 or brings it to 0, and that step stops the
\* countdown, so that it never ticks again; in every other step the handler
\* does not run.
C15_Step ==
    /\ (lastOp'.op = "tick" /\ state.restRemaining <= 1) =>
          /\ RestCompleteToasts' = 1
          /\ lastOp'.index \notin intervals'
          /\ intervals' = {}
          /\ state'.restTimerId = NoTimer
          /\ state'.restRemaining = 0
    /\ (lastOp'.op = "tick" /\ state.restRemaining > 1) =>
          /\ RestCompleteToasts' = 0
          /\ intervals' = intervals
          /\ state' = [state EXCEPT !.restRemaining = @ - 1]
    /\ lastOp'.op # "tick" => RestCompleteToasts' = 0

C15_RestFinishedExactlyOnce == [][C15_Step]_vars

\* The countdown has just run out and is gone.
C15_Witness ==
    /\ lastOp.op = "tick"
    /\ HasToast("rest complete")
    /\ lastOp.index \notin intervals
    /\ state.restRemaining = 0

----------------------------------------------------------------------------
(* C16 *)

\* C16: in every reachable state, restTimerStarted false implies
\* restRemaining = 0.
C16_NoRestWithoutStartedTimer ==
    ~state.restTimerStarted => state.restRemaining = 0

\* An exercise was selected again while its countdown was running.
C16_Witness ==
    /\ lastOp.op = "chooseExercise"
    /\ state.selectedExercise = lastOp.index
    /\ ~state.restTimerStarted
    /\ state.restRemaining = 0
    /\ intervals # {}

----------------------------------------------------------------------------
(* C17 *)

\* C17: Complete is terminal for a session: once the screen is "complete" it
\* stays "complete" under startWorkout, chooseExercise, enterResultData,
\* submitSet and every timer tick; only restartSession leaves it, for "main".
C17_Step ==
    state.screen = "complete" =>
        IF lastOp'.op = "restartSession"
        THEN state'.screen = "main"
        ELSE state'.screen = "complete"

C17_CompleteIsTerminal == [][C17_Step]_vars

\* The part of C17 the code keeps: every handler call leaves Complete as the
\* claim says; only the tick of a countdown left pending does not.
C17_HandlersKeepComplete ==
    [][lastOp'.op # "tick" => C17_Step]_vars

----------------------------------------------------------------------------
(* C18 *)

\* C18: completedSets changes only inside advanceAfterSet, apart from the
\* reset by restartSession: a step other than a restart changes it only where
\* advanceAfterSet runs (a tick, or a submitSet), only at the selected
\* exercise and only by one; completedSets[i] never exceeds the number of
\* entries of exercise i; and advanceAfterSet with no exercise selected
\* changes nothing.
C18_Step ==
    /\ \A i \in Indices :
          Completed(state', i) # Completed(state, i) =>
              \/ lastOp'.op = "restartSession" /\ Completed(state', i) = 0
              \/ /\ lastOp'.op \in {"tick", "submitSet"}
                 /\ i = state.selectedExercise
                 /\ Completed(state', i) = Completed(state, i) + 1
    /\ \A i \in Indices : Completed(state', i) <= Len(At(state'.entries, i))
    /\ state'.selectedExercise = NULL => advanceAfterSet(World') = World'

C18_CompletedSetsOnlyAdvance == [][C18_Step]_vars

\* A countdown has just run out on the one recorded set of an exercise, and a
\* tick has advanced it.
C18_Witness ==
    /\ lastOp.op = "tick"
    /\ \E i \in Indices :
          Completed(state, i) = 1 /\ Len(At(state.entries, i)) = 1

----------------------------------------------------------------------------
(* C19 *)

\* The text of the draft fields for the numbers the workouts use.
DraftText(n) ==
    CASE n = 10 -> "10" [] n = 12 -> "12" [] n = 80 -> "80" [] n = 90 -> "90"

\* C19: a successful chooseExercise(i) sets selectedExercise = i,
\* restRemaining = 0, restTimerStarted = false, inputSubmitted = false, the
\* draft to the exercise's target reps and default weight and the screen to
\* "progress", and leaves every other field of the session state as it was.
C19_Step ==
    (lastOp'.op = "chooseExercise" /\ ~RefusedSelection(state, lastOp'.index)) =>
        LET i == lastOp'.index IN
        state' = [state EXCEPT
                     !.selectedExercise = i,
                     !.restRemaining = 0,
                     !.restTimerStarted = FALSE,
                     !.inputSubmitted = FALSE,
                     !.currentInput =
                         [reps |-> DraftText(workout[i + 1].targetReps),
                          weight |-> DraftText(workout[i + 1].defaultWeight)],
                     !.screen = "progress"]

C19_SelectionResetsPerSetData == [][C19_Step]_vars

\* An exercise has just been selected again while its set was submitted and
\* its rest was running: the per-set data of that attempt is gone.
C19_Witness ==
    /\ lastOp.op = "chooseExercise"
    /\ state.selectedExercise = lastOp.index
    /\ state.screen = "progress"
    /\ ~state.inputSubmitted /\ state.restRemaining = 0
    /\ TotalEntries(state) > 0
    /\ intervals # {}

----------------------------------------------------------------------------
(* C20 *)

\* The end of the walk-through in the scenario of two sets with 3 seconds of
\* rest: both sets are complete and the session has 45 points.
C20_ScenarioEnd(currencyGain) ==
    (config = ScenarioConfig /\ state.screen = "complete") =>
        /\ Completed(state, 0) = 2
        /\ state.sessionPoints = 45
        /\ state.currency = config.initial.currency + currencyGain

\* C20: in the scenario (one exercise, setCount 2, restSeconds 3, set reward
\* 10 points / 5 currency, exercise reward 25 points / 12 currency, rank 3,
\* rankXp 45), after startWorkout, chooseExercise(0) and two rounds of
\* enterResultData, submitSet(10, 90) and three ticks, completedSets[0] = 2,
\* the screen is "complete", sessionPoints = 45 and currency is 17 above its
\* initial value.
C20_ScenarioGains17 == C20_ScenarioEnd(17)

\* C20 amended: the same, with currency 22 above its initial value (5 for
\* each of the two sets and 12 for the exercise).
C20_ScenarioGains22 ==
    /\ C20_ScenarioEnd(22)
    /\ (config = ScenarioConfig /\ lastOp.op = "tick" /\ Completed(state, 0) = 2) =>
          state.screen = "complete"

\* The walk-through of the scenario has reached its end: two entries of 10
\* reps at 90, the last countdown run out.
C20_Witness ==
    /\ config = ScenarioConfig
    /\ state.screen = "complete"
    /\ lastOp.op = "tick"
    /\ Len(At(state.entries, 0)) = 2
    /\ intervals = {}

----------------------------------------------------------------------------
(* C21 *)

\* C21: startedAt is set on the first transition out of Main: in every
\* reachable state whose screen is not "main", startedAt is set, whatever
\* operation made the screen leave Main.
C21_StartedAtSetOffMain ==
    state.screen # "main" => state.startedAt # "null"

\* The part of C21 the code keeps: startWorkout sets startedAt when it is
\* unset and never changes it once set.
C21_StartWorkoutSetsStartedAt ==
    [][lastOp'.op = "startWorkout" =>
          /\ state'.startedAt # "null"
          /\ state.startedAt # "null" => state'.startedAt = state.startedAt]_vars

----------------------------------------------------------------------------
(* C22 *)

\* C22: a failure of the desktop notification when the rest countdown
\* completes (API unavailable, permission not granted, constructor throwing)
\* never affects engine state: every tick reaches the session state, the
\* timers and the notices it reaches when the notification is shown.
C22_Step ==
    lastOp'.op = "tick" =>
        LET shown == restTimerCallback(WorldVia("granted")) IN
        /\ state' = shown.state
        /\ intervals' = shown.intervals
        /\ toasts' = shown.toasts

C22_NotificationFailureIsHarmless == [][C22_Step]_vars

\* A countdown of a submitted set has just run out while the notification
\* constructor threw, and the set was advanced all the same.
C22_Witness ==
    /\ lastOp.op = "tick"
    /\ lastOp.channel = "throws"
    /\ HasToast("rest complete")
    /\ state.screen \in {"progress", "circuit", "complete"}
    /\ \E i \in Indices : Completed(state, i) > 0

----------------------------------------------------------------------------
(* C23 *)

\* C23: a workout with an empty exercise list is refused at construction:
\* the state machine never runs with zero exercises, so no operation moves
\* such a session, and startWorkout never routes it to Complete.
C23_Step ==
    NumExercises = 0 => (state' = state /\ state'.screen # "complete")

C23_EmptyWorkoutNeverRuns == [][C23_Step]_vars

----------------------------------------------------------------------------
(* C24 *)

\* The world in which the step that ended in lastOp' started.
C24_Before ==
    WorldVia(IF lastOp'.op = "tick" THEN lastOp'.channel ELSE "granted")

\* The copy constructs the same session, and from the same session state the
\* same event takes it to the same session state and the same timers.
C24_Step ==
    /\ lastOp.op = "init" => state = v2_InitialState
    /\ state' = v2_Dispatch(C24_Before, lastOp').state
    /\ intervals' = v2_Dispatch(C24_Before, lastOp').intervals

\* C24: src/unnamed/part_000 and src/design_exploration/v2/common.js are
\* behaviourally equivalent: given the same workout definition, reward
\* constants and initial values and the same sequence of operations and
\* ticks, they pass through identical session states at every step.
C24_CopiesEquivalent == [][C24_Step]_vars

\* The part of C24 the code keeps: the copies agree at every step under a
\* configuration that sets no globalRestSeconds.
C24_CopiesEquivalentWithoutOverride ==
    [][~isFinite(v2_globalRestSeconds) => C24_Step]_vars

----------------------------------------------------------------------------
(* C25 *)

\* C25: in the tick that ends the rest countdown, a set not yet submitted
\* makes the screen "input" and leaves completedSets, entries and the
\* counters unchanged; a submitted set is advanced in that same step:
\* completedSets of the selected exercise is one higher, the submitted flag
\* is cleared and the screen is "progress", "circuit" or "complete".
C25_Step ==
    (lastOp'.op = "tick" /\ state.restRemaining <= 1) =>
        IF ~state.inputSubmitted
        THEN state' = [state EXCEPT !.screen = "input",
                                    !.restRemaining = 0,
                                    !.restTimerId = NoTimer]
        ELSE /\ state.selectedExercise # NULL
             /\ Completed(state', state.selectedExercise)
                  = Completed(state, state.selectedExercise) + 1
             /\ \A i \in Indices \ {state.selectedExercise} :
                  Completed(state', i) = Completed(state, i)
             /\ state'.entries = state.entries
             /\ ~state'.inputSubmitted
             /\ ~state'.restTimerStarted
             /\ state'.restRemaining = 0
             /\ state'.screen =
                  IF IsComplete(state', state.selectedExercise)
                  THEN IF \A i \in Indices : IsComplete(state', i)
                       THEN "complete" ELSE "circuit"
                  ELSE "progress"

C25_RestFinishedRoutesBySubmission == [][C25_Step]_vars

\* A countdown started on entering the result has just run out with the set
\* not submitted: the Input screen asks for the set.
C25_Witness ==
    /\ lastOp.op = "tick"
    /\ state.screen = "input"
    /\ HasToast("Timer ended")
    /\ state.selectedExercise # NULL
    /\ state.restTimerStarted
    /\ ~state.inputSubmitted
    /\ intervals = {}

----------------------------------------------------------------------------
(* C26 *)

\* The step that ended in lastOp' ran advanceAfterSet on a selected exercise:
\* a tick that ended the countdown of a submitted set, or an accepted
\* submitSet that left no rest to wait for.
C26_Advanced ==
    /\ state.selectedExercise # NULL
    /\ \/ lastOp'.op = "tick" /\ state.restRemaining <= 1 /\ state.inputSubmitted
       \/ /\ lastOp'.op = "submitSet"
          /\ Accepts(state, lastOp'.reps, lastOp'.weight)
          /\ IF state.restTimerStarted
             THEN state.restRemaining = 0
             ELSE exerciseByIndex(state.selectedExercise).restSeconds = 0

\* What the set reward of the same step adds, when the step is a submitSet.
C26_SetPoints == IF lastOp'.op = "submitSet" THEN rewards.setPoints ELSE 0
C26_SetCurrency == IF lastOp'.op = "submitSet" THEN rewards.setCurrency ELSE 0

\* Points counted in rank progress: 100 for each rank, plus rankXp.
C26_RankPoints(s) == 100 * s.rank + s.rankXp

\* C26: advanceAfterSet with exercise i selected increments completedSets[i]
\* by exactly 1 and clears restRemaining, restTimerStarted and inputSubmitted;
\* if completedSets[i] then equals setCount it grants the exercise reward
\* exactly once, clears the selection and the draft, and shows "complete" when
\* every exercise is complete and "circuit" otherwise; if not, it keeps the
\* selection, grants no exercise reward and shows "progress".
C26_Step ==
    C26_Advanced =>
        LET i == state.selectedExercise IN
        /\ Completed(state', i) = Completed(state, i) + 1
        /\ \A j \in Indices \ {i} : Completed(state', j) = Completed(state, j)
        /\ state'.restRemaining = 0
        /\ ~state'.restTimerStarted
        /\ ~state'.inputSubmitted
        /\ IF Completed(state', i) = SetCount(i)
           THEN /\ state'.sessionPoints =
                     state.sessionPoints + C26_SetPoints + rewards.exercisePoints
                /\ state'.currency =
                     state.currency + C26_SetCurrency + rewards.exerciseCurrency
                /\ C26_RankPoints(state') =
                     C26_RankPoints(state) + C26_SetPoints + rewards.exercisePoints
                /\ state'.selectedExercise = NULL
                /\ state'.currentInput = [reps |-> "", weight |-> ""]
                /\ state'.screen =
                     IF \A j \in Indices : Completed(state', j) >= SetCount(j)
                     THEN "complete" ELSE "circuit"
           ELSE /\ state'.sessionPoints = state.sessionPoints + C26_SetPoints
                /\ state'.currency = state.currency + C26_SetCurrency
                /\ C26_RankPoints(state') = C26_RankPoints(state) + C26_SetPoints
                /\ state'.selectedExercise = i
                /\ state'.currentInput = state.currentInput
                /\ state'.screen = "progress"

C26_AdvanceAfterSetEffect == [][C26_Step]_vars

\* A tick has just advanced the last set of an exercise while another
\* exercise is still open: the selection is cleared and Circuit shows.
C26_Witness ==
    /\ lastOp.op = "tick"
    /\ state.screen = "circuit"
    /\ state.selectedExercise = NULL
    /\ \E i \in Indices : Completed(state, i) = SetCount(i)
    /\ \E j \in Indices : Completed(state, j) < SetCount(j)
    /\ state.sessionPoints = 2 * rewards.setPoints + rewards.exercisePoints

----------------------------------------------------------------------------
(* C27 *)

\* The step that ended in lastOp' was an accepted submitSet.
AcceptedSubmit ==
    lastOp'.op = "submitSet" /\ Accepts(state, lastOp'.reps, lastOp'.weight)

\* C27: an accepted submitSet starts a rest countdown only if none was
\* started for the current set: with restTimerStarted already true it leaves
\* restRemaining unchanged and does not replace the running countdown; with
\* restTimerStarted false it starts one of the exercise's restSeconds.
C27_Step ==
    AcceptedSubmit =>
        IF state.restTimerStarted
        THEN /\ state'.restRemaining = state.restRemaining
             /\ state'.restTimerId = state.restTimerId
             /\ intervals' = intervals
             /\ state.restRemaining > 0 =>
                  (state'.screen = "rest" /\ state'.restTimerStarted)
        ELSE /\ state'.restTimerId # NoTimer
             /\ intervals' = {state'.restTimerId}
             /\ exerciseByIndex(state.selectedExercise).restSeconds > 0 =>
                  /\ state'.restRemaining =
                       exerciseByIndex(state.selectedExercise).restSeconds
                  /\ state'.restTimerStarted
                  /\ state'.screen = "rest"

C27_SubmitKeepsRunningCountdown == [][C27_Step]_vars

\* A set has just been submitted while the countdown started on entering the
\* result had already used up part of the rest: the rest goes on from there.
C27_Witness ==
    /\ lastOp.op = "submitSet"
    /\ state.screen = "rest"
    /\ state.inputSubmitted
    /\ state.selectedExercise # NULL
    /\ state.restRemaining > 0
    /\ state.restRemaining < exerciseByIndex(state.selectedExercise).restSeconds
    /\ intervals = {state.restTimerId}

----------------------------------------------------------------------------
(* C28 *)

\* The countdown of the current set ran out before the set was submitted.
C28_Expired(s) ==
    /\ s.screen = "input"
    /\ s.selectedExercise # NULL
    /\ s.restTimerStarted
    /\ s.restRemaining = 0
    /\ intervals = {}

\* C28: if the countdown of the current set has expired before the set is
\* submitted (screen "input", restTimerStarted true, restRemaining 0, no
\* countdown pending), an accepted submitSet advances the set in the same
\* step: completedSets of the selected exercise is one higher, the screen is
\* "progress", "circuit" or "complete", never "rest", and no countdown is
\* started.
C28_Step ==
    (AcceptedSubmit /\ C28_Expired(state)) =>
        /\ Completed(state', state.selectedExercise)
             = Completed(state, state.selectedExercise) + 1
        /\ state'.screen \in {"progress", "circuit", "complete"}
        /\ state'.screen =
             IF IsComplete(state', state.selectedExercise)
             THEN IF \A i \in Indices : IsComplete(state', i)
                  THEN "complete" ELSE "circuit"
             ELSE "progress"
        /\ intervals' = {}
        /\ state'.restTimerId = NoTimer
        /\ state'.restRemaining = 0
        /\ ~state'.restTimerStarted
        /\ ~state'.inputSubmitted

C28_ExpiredRestAdvancesAtOnce == [][C28_Step]_vars

\* A set has just been submitted after its countdown had run out, and it was
\* advanced at once: it is recorded and counted, and no countdown is pending.
C28_Witness ==
    /\ lastOp.op = "submitSet"
    /\ state.screen = "progress"
    /\ state.selectedExercise # NULL
    /\ Completed(state, state.selectedExercise) = 1
    /\ Len(At(state.entries, state.selectedExercise)) = 1
    /\ exerciseByIndex(state.selectedExercise).restSeconds > 0
    /\ intervals = {}
    /\ state.restTimerId = NoTimer

----------------------------------------------------------------------------
(* C29 *)

\* C29: each tick that finds restRemaining > 0 decrements it by exactly 1 and
\* changes no other session field unless the result is 0; a tick that finds
\* restRemaining = 0 does not decrement; restRemaining is an integer >= 0 in
\* every reachable state.
C29_Step ==
    /\ lastOp'.op = "tick" =>
         /\ state.restRemaining > 1 =>
              state' = [state EXCEPT !.restRemaining = state.restRemaining - 1]
         /\ state.restRemaining = 1 => state'.restRemaining = 0
         /\ state.restRemaining = 0 => state'.restRemaining = 0
    /\ state'.restRemaining \in Nat

C29_TicksCountWholeSeconds == [][C29_Step]_vars

\* A tick has just taken one second off a rest that goes on.
C29_Witness ==
    /\ lastOp.op = "tick"
    /\ state.screen = "rest"
    /\ state.selectedExercise # NULL
    /\ state.restRemaining = exerciseByIndex(state.selectedExercise).restSeconds - 1
    /\ state.restRemaining > 0
    /\ intervals = {state.restTimerId}

----------------------------------------------------------------------------
(* C30 *)

\* While Rest shows, the countdown of the selected exercise is pending.
C30_RestPending ==
    state.screen = "rest" =>
        /\ state.selectedExercise # NULL
        /\ state.restRemaining > 0
        /\ intervals = {state.restTimerId}

\* Short of a restart, Rest is left only by the tick that finds one second
\* remaining, which advances the set; every earlier tick takes one second
\* off and stays on Rest.
C30_Step ==
    (state.screen = "rest" /\ lastOp'.op # "restartSession") =>
        IF lastOp'.op = "tick"
        THEN IF state.restRemaining > 1
             THEN /\ state'.screen = "rest"
                  /\ state'.restRemaining = state.restRemaining - 1
             ELSE /\ state'.screen # "rest"
                  /\ Completed(state', state.selectedExercise)
                       = Completed(state, state.selectedExercise) + 1
        ELSE /\ state'.screen = "rest"
             /\ state'.completedSets = state.completedSets
             /\ state'.restRemaining = state.restRemaining

C30_RestIsLeft == (state.screen = "rest") ~> (state.screen # "rest")

\* C30: Rest is never occupied forever: whenever the screen is "rest" a
\* countdown is pending, and with ticks delivered and no restart the engine
\* eventually leaves Rest through advanceAfterSet, completedSets of the
\* selected exercise one higher than when Rest was entered, after exactly as
\* many ticks as restRemaining counted on entry.
C30_RestEndsByAdvance ==
    /\ []C30_RestPending
    /\ [][C30_Step]_vars
    /\ C30_RestIsLeft

\* The parts of C30 the code keeps whatever is called during the rest.
C30_RestHasCountdown == []C30_RestPending /\ C30_RestIsLeft

----------------------------------------------------------------------------
(* C33 *)

\* C33: a selected exercise is incomplete: selectedExercise = i implies
\* completedSets[i] < setCount of exercise i, so the selected exercise and
\* the locked exercise always coincide.
C33_SelectedIsLocked ==
    /\ state.selectedExercise # NULL =>
         /\ HasExercise(state.selectedExercise)
         /\ Completed(state, state.selectedExercise) < SetCount(state.selectedExercise)
    /\ lockedExerciseIndex(state) = state.selectedExercise

\* An exercise is selected with its last set submitted and still resting.
C33_Witness ==
    /\ state.selectedExercise # NULL
    /\ state.screen = "rest"
    /\ Completed(state, state.selectedExercise) = SetCount(state.selectedExercise) - 1
    /\ Len(At(state.entries, state.selectedExercise)) = SetCount(state.selectedExercise)

----------------------------------------------------------------------------
(* C34 *)

\* C34: whenever the screen is "progress", "input" or "rest" an exercise is
\* selected.
C34_SetScreensHaveSelection ==
    state.screen \in {"progress", "input", "rest"} => state.selectedExercise # NULL

\* The part of C34 the code keeps: Progress and Rest always have a selection.
C34_ProgressAndRestHaveSelection ==
    state.screen \in {"progress", "rest"} => state.selectedExercise # NULL

----------------------------------------------------------------------------
(* C35 *)

\* The number of exercises whose completedSets equals their setCount.
CompleteExercises(s) == Cardinality({i \in Indices : Completed(s, i) = SetCount(i)})

\* C35: reward accounting is conserved between restarts: sessionPoints is
\* setPoints for every recorded entry plus exercisePoints for every complete
\* exercise, currency has risen over its initial value by setCurrency for
\* every entry plus exerciseCurrency for every complete exercise, and
\* 100 * rank + rankXp has risen over its initial value by sessionPoints.
C35_RewardsConserved ==
    /\ state.sessionPoints =
         rewards.setPoints * TotalEntries(state)
           + rewards.exercisePoints * CompleteExercises(state)
    /\ state.currency - config.initial.currency =
         rewards.setCurrency * TotalEntries(state)
           + rewards.exerciseCurrency * CompleteExercises(state)
    /\ 100 * state.rank + state.rankXp =
         100 * config.initial.rank + config.initial.rankXp + state.sessionPoints

\* A workout of two exercises is complete with one entry for every set.
C35_Witness ==
    /\ NumExercises = 2
    /\ state.screen = "complete"
    /\ CompleteExercises(state) = 2
    /\ TotalEntries(state) = 3
    /\ state.sessionPoints = 80

----------------------------------------------------------------------------
(* C36 *)

\* C36: at most one exercise is partially done, and it is the selected one:
\* an exercise with a recorded entry or a counted set, and completedSets
\* below setCount, is the selected exercise.
C36_PartialIsSelected ==
    \A i \in Indices :
        ((Len(At(state.entries, i)) > 0 \/ Completed(state, i) > 0)
            /\ Completed(state, i) < SetCount(i))
        => state.selectedExercise = i

\* One set of two is counted for the selected exercise, the other exercise
\* untouched.
C36_Witness ==
    /\ NumExercises = 2
    /\ state.selectedExercise # NULL
    /\ Completed(state, state.selectedExercise) = 1
    /\ SetCount(state.selectedExercise) = 2
    /\ state.screen = "progress"
    /\ TotalEntries(state) = 1

----------------------------------------------------------------------------
(* C37 *)

\* C37: when an accepted submitSet advances the set at once, no countdown is
\* left pending: in every reachable state a pending countdown implies that an
\* exercise is selected and restTimerStarted is true.
C37_PendingCountdownHasSet ==
    intervals # {} => (state.selectedExercise # NULL /\ state.restTimerStarted)

----------------------------------------------------------------------------
(* C38 *)

\* C38: the screen is "complete" only if every exercise has completedSets
\* equal to its setCount, and then no exercise is selected, inputSubmitted is
\* false and restRemaining is 0.
C38_CompleteMeansAllDone ==
    state.screen = "complete" =>
        /\ \A i \in Indices : Completed(state, i) = SetCount(i)
        /\ state.selectedExercise = NULL
        /\ ~state.inputSubmitted
        /\ state.restRemaining = 0

\* The workout of two exercises has just been completed by a tick.
C38_Witness ==
    /\ state.screen = "complete"
    /\ lastOp.op = "tick"
    /\ NumExercises = 2
    /\ \A i \in Indices : Len(At(state.entries, i)) >= SetCount(i)

----------------------------------------------------------------------------
(* The forward walk: the user performs only the step the shown screen      *)
(* offers, and the pending countdown ticks whenever the host delivers it.  *)

\* renderScreen: Progress and Input without a selected exercise draw the
\* exercise list of Circuit.
shownScreen(s) ==
    IF s.screen \in {"progress", "input"}
       /\ (s.selectedExercise = NULL \/ ~HasExercise(s.selectedExercise))
    THEN "circuit"
    ELSE s.screen

\* renderCircuit: the button of an exercise is disabled when the exercise is
\* done or another one is locked.
tileEnabled(s, idx) ==
    /\ At(s.completedSets, idx) < exerciseByIndex(idx).setCount
    /\ ~(lockedExerciseIndex(s) # NULL /\ lockedExerciseIndex(s) # idx)

ForwardConfigs == Configs \cup ScenarioConfigs

ForwardInit ==
    /\ config \in ForwardConfigs
    /\ state = InitialState(config)
    /\ toasts = <<>>
    /\ intervals = {}
    /\ lastOp = Op("init", NULL, "", "")

ForwardStartWorkout ==
    /\ shownScreen(state) = "main"
    /\ Becomes(startWorkout(World), Op("startWorkout", NULL, "", ""))

ForwardChooseExercise ==
    /\ shownScreen(state) = "circuit"
    /\ \E idx \in Indices :
          /\ tileEnabled(state, idx)
          /\ Becomes(chooseExercise(World, idx), Op("chooseExercise", idx, "", ""))

ForwardEnterResultData ==
    /\ shownScreen(state) = "progress"
    /\ Becomes(enterResultData(World), Op("enterResultData", NULL, "", ""))

ForwardSubmitSet ==
    /\ shownScreen(state) = "input"
    /\ Becomes(submitSet(World, "10", "90"), Op("submitSet", NULL, "10", "90"))

ForwardUser ==
    \/ ForwardStartWorkout
    \/ ForwardChooseExercise
    \/ ForwardEnterResultData
    \/ ForwardSubmitSet

ForwardNext ==
    \/ ForwardUser
    \/ Tick

ForwardSpec == ForwardInit /\ [][ForwardNext]_vars

\* The user keeps taking the step the screen offers, and a pending countdown
\* keeps ticking.
FairForwardSpec == ForwardSpec /\ WF_vars(ForwardUser) /\ WF_vars(Tick)

----------------------------------------------------------------------------
(* C39 *)

AtComplete ==
    /\ state.screen = "complete"
    /\ \A i \in Indices : Completed(state, i) = SetCount(i)

\* C39: the flow cannot get stuck: with ticks delivered and the user taking
\* the forward step of each screen, from every state of the walk the session
\* eventually is on Complete with every exercise at its set count.
C39_AlwaysReachesComplete == []<>AtComplete

\* What the code keeps: Complete is reached once.
C39_ReachesCompleteOnce == <>AtComplete

\* The state the walk ends in: Input with no selection, every exercise done,
\* nothing pending.
C39_StuckOffComplete ==
    /\ state.screen = "input"
    /\ state.selectedExercise = NULL
    /\ \A i \in Indices : Completed(state, i) = SetCount(i)
    /\ intervals = {}

----------------------------------------------------------------------------
(* The v1 WorkoutFlow class (design_exploration/v1/designs_gemini).  Its   *)
(* state v has the fields of this.state; an exercise's id is its index, and *)
(* completedSets and isComplete are the fields of the workout's exercises. *)
(* elapsed is Date.now() - backgroundTimerStart in whole seconds, as the   *)
(* interval callback computes it.  A method that throws a TypeError leaves  *)
(* the state as the statements before the throw made it.                   *)

\* timerDuration: the workout's one rest duration (REST_TIME_SECONDS).
v1_timerDuration == IF NumExercises = 0 THEN 0 ELSE workout[1].restSeconds

v1_sets(id) == exerciseByIndex(id).setCount

v1_InitialState ==
    [currentPage |-> "page-main",
     completedSets |-> [i \in 1 .. NumExercises |-> 0],
     isComplete |-> [i \in 1 .. NumExercises |-> FALSE],
     activeExerciseId |-> NULL,
     restTimeRemaining |-> 0,
     timerInterval |-> NULL,
     elapsed |-> 0]

v1_transition(v, pageId) == [v EXCEPT !.currentPage = pageId]

v1_startWorkout(v) == v1_transition(v, "page-circuit")

v1_selectExercise(v, exerciseId) ==
    IF ~HasExercise(exerciseId) THEN v
    ELSE IF At(v.isComplete, exerciseId) THEN v
    ELSE v1_transition([v EXCEPT !.activeExerciseId = exerciseId], "page-progress")

v1_startRestTimer(v) ==
    [v EXCEPT !.restTimeRemaining = v1_timerDuration,
              !.elapsed = 0,
              !.timerInterval = 1]

v1_enterResultData(v) == v1_transition(v1_startRestTimer(v), "page-result-input")

v1_handleRestComplete(v) ==
    LET v1 == [v EXCEPT !.timerInterval = NULL]
        id == v.activeExerciseId
    IN  IF id = NULL THEN v1
        ELSE IF At(v1.completedSets, id) < v1_sets(id)
        THEN v1_transition(v1, "page-progress")
        ELSE v1_transition([v1 EXCEPT !.isComplete[id + 1] = TRUE,
                                      !.activeExerciseId = NULL],
                           "page-circuit")

v1_submitResult(v, reps, weight) ==
    LET id == v.activeExerciseId IN
    IF id = NULL THEN v
    ELSE LET v1 == [v EXCEPT !.completedSets[id + 1] = @ + 1] IN
         IF v1.restTimeRemaining > 0
         THEN v1_transition(v1, "page-rest")
         ELSE v1_handleRestComplete(v1)

\* The callback startRestTimer schedules.
v1_timerCallback(v) ==
    LET elapsed == v.elapsed + 1
        v1 == [v EXCEPT !.elapsed = elapsed,
                        !.restTimeRemaining = v1_timerDuration - elapsed]
    IN  IF v1.restTimeRemaining <= 0
        THEN v1_handleRestComplete([v1 EXCEPT !.restTimeRemaining = 0])
        ELSE v1

----------------------------------------------------------------------------
(* The two engines side by side: state.canonical is the canonical engine's *)
(* state, state.v1 the WorkoutFlow's; every event is given to both.        *)

LockstepConfigs ==
    { [workout |-> << [targetReps |-> 10, setCount |-> n1,
                       defaultWeight |-> 90, restSeconds |-> r],
                      [targetReps |-> 10, setCount |-> 1,
                       defaultWeight |-> 90, restSeconds |-> r] >>,
       rewards |-> DefaultRewards, initial |-> DefaultInitial] :
        n1 \in 1 .. MaxV1Sets, r \in 0 .. MaxV1Rest }

CanonicalWorld ==
    [state |-> state.canonical, toasts |-> <<>>, intervals |-> intervals,
     notification |-> "granted", notified |-> FALSE]

LockstepBecomes(w, v, op) ==
    /\ state' = [canonical |-> w.state, v1 |-> v]
    /\ toasts' = w.toasts
    /\ intervals' = w.intervals
    /\ lastOp' = op
    /\ UNCHANGED config

LockstepInit ==
    /\ config \in LockstepConfigs
    /\ state = [canonical |-> InitialState(config), v1 |-> v1_InitialState]
    /\ toasts = <<>>
    /\ intervals = {}
    /\ lastOp = Op("init", NULL, "", "")

LockstepStartWorkout ==
    LockstepBecomes(startWorkout(CanonicalWorld), v1_startWorkout(state.v1),
                    Op("startWorkout", NULL, "", ""))

LockstepSelectExercise ==
    \E index \in Indices :
        LockstepBecomes(chooseExercise(CanonicalWorld, index),
                        v1_selectExercise(state.v1, index),
                        Op("chooseExercise", index, "", ""))

LockstepEnterResultData ==
    LockstepBecomes(enterResultData(CanonicalWorld), v1_enterResultData(state.v1),
                    Op("enterResultData", NULL, "", ""))

LockstepSubmit ==
    LET w == submitSet(CanonicalWorld, "10", "90")
        v == v1_submitResult(state.v1, "10", "90")
    IN  /\ TotalEntries(w.state) <= MaxEntries
        /\ \A i \in Indices : At(v.completedSets, i) <= MaxV1Counted
        /\ LockstepBecomes(w, v, Op("submitSet", NULL, "10", "90"))

\* One second passes: each engine's pending interval runs its callback.
LockstepTick ==
    /\ intervals # {} \/ state.v1.timerInterval # NULL
    /\ LockstepBecomes(
          IF intervals # {} THEN restTimerCallback(CanonicalWorld) ELSE CanonicalWorld,
          IF state.v1.timerInterval # NULL THEN v1_timerCallback(state.v1) ELSE state.v1,
          TickOp(1, "granted"))

LockstepNext ==
    \/ LockstepStartWorkout
    \/ LockstepSelectExercise
    \/ LockstepEnterResultData
    \/ LockstepSubmit
    \/ LockstepTick

LockstepSpec == LockstepInit /\ [][LockstepNext]_vars

----------------------------------------------------------------------------
(* C31 *)

\* The canonical screen a v1 page stands for.
pageScreen(pageId) ==
    CASE pageId = "page-main" -> "main"
      [] pageId = "page-circuit" -> "circuit"
      [] pageId = "page-progress" -> "progress"
      [] pageId = "page-result-input" -> "input"
      [] pageId = "page-rest" -> "rest"

\* C31: given the same events, the v1 WorkoutFlow and the canonical engine
\* are on the same screen with the same completed-set count for every
\* exercise.
C31_SameScreensAndCounts ==
    /\ pageScreen(state.v1.currentPage) = state.canonical.screen
    /\ state.v1.completedSets = state.canonical.completedSets

\* Both engines on Rest after the same submit, the set counted by the
\* WorkoutFlow and not yet by the canonical engine.
C31_RestCountsDiffer ==
    /\ lastOp.op = "submitSet"
    /\ state.canonical.screen = "rest"
    /\ state.v1.currentPage = "page-rest"
    /\ state.canonical.selectedExercise = state.v1.activeExerciseId
    /\ At(state.v1.completedSets, state.v1.activeExerciseId)
          = Completed(state.canonical, state.canonical.selectedExercise) + 1

\* The canonical engine on Complete, the WorkoutFlow back on its exercise
\* list.
C31_CompleteVersusCircuit ==
    /\ state.canonical.screen = "complete"
    /\ state.v1.currentPage = "page-circuit"
    /\ \A i \in Indices : At(state.v1.isComplete, i)

\* The countdown that expires before the set is submitted: same screens?
C31_SameScreenOnEarlyExpiry ==
    [][(lastOp'.op = "tick" /\ state.canonical.screen = "input"
        /\ state.v1.currentPage = "page-result-input")
       => pageScreen(state'.v1.currentPage) = state'.canonical.screen]_vars

\* A second exercise selected while one is in progress: same selection?
C31_SameSelection ==
    state.v1.activeExerciseId = state.canonical.selectedExercise

----------------------------------------------------------------------------
(* C32 *)

\* C32: in the v1 WorkoutFlow, after any sequence of its methods and
\* countdown ticks, no exercise has more completed sets than its sets.
C32_CompletedSetsBounded ==
    \A i \in Indices : At(state.v1.completedSets, i) <= v1_sets(i)

\* What the code keeps: an exercise marked complete stays complete and its
\* count is not raised again.
C32_CompleteIsFrozen ==
    [][\A i \in Indices :
          At(state.v1.isComplete, i) =>
             /\ At(state'.v1.isComplete, i)
             /\ At(state'.v1.completedSets, i) = At(state.v1.completedSets, i)]_vars

\* An exercise with all its sets counted, not marked complete, is selected
\* again.
C32_FullExerciseSelectable ==
    [][\A i \in Indices :
          (At(state.v1.completedSets, i) >= v1_sets(i) /\ lastOp'.op = "chooseExercise"
             /\ lastOp'.index = i)
          => state'.v1 = state.v1]_vars

====
